---- MODULE Spec2Model ----
(***************************************************************************)
(* Model of gcloud/datastore/_implicit_environ.py: the default dataset ID  *)
(* resolution (_determine_default_dataset_id), the two probes              *)
(* (app_engine_id, compute_engine_id), the lazy property of the defaults   *)
(* container and the module-level getters and setter.                      *)
(*                                                                         *)
(* Python's None is the string None; a raised exception is the name of its *)
(* class, None when the call returned.                                     *)
(***************************************************************************)
EXTENDS Integers, Sequences, FiniteSets, TLC

None == "None"

\* The number of get_default_dataset_id / set_default_dataset_id calls of a run.
MaxCalls == 3

_DATASET_ENV_VAR_NAME == "GCLOUD_DATASET_ID"
_GCD_DATASET_ENV_VAR_NAME == "DATASTORE_DATASET"
EnvVarNames == {_DATASET_ENV_VAR_NAME, _GCD_DATASET_ENV_VAR_NAME}

\* What the sources can hold: a token or the empty string; None is "not there".
EnvValues == [GCLOUD_DATASET_ID |-> {"", "g"}, DATASTORE_DATASET |-> {"d"}]
ExplicitIds == {"", "x"}
Connections == {"conn"}

\* The threads that call the API concurrently.
Threads == {"t1", "t2"}

\* What app_identity.get_application_id() does when the module was imported:
\* it returns a string or None, or it raises.
Raises == "raises"
ApplicationIdOutcomes == {None, "p", Raises}

\* What the metadata server does with the one GET request:
\*   unreachable  connection.request raises socket.error
\*   timeout      connection.getresponse raises socket.timeout (a socket.error)
\*   garbage      connection.getresponse raises an HTTPException (BadStatusLine)
\*   response     a response with a status and a body
Response(status, body) == [kind |-> "response", status |-> status, body |-> body]
Failure(kind) == [kind |-> kind, status |-> 0, body |-> None]
MetadataServers ==
    {Failure("unreachable"), Failure("timeout"), Failure("garbage"),
     Response(200, "m"), Response(200, ""), Response(500, "m")}

VARIABLES
    environ,          \* os.environ restricted to the two variables; None = unset
    app_identity,     \* the module global app_identity: None or "module"
    application_id,   \* the outcome of app_identity.get_application_id()
    metadata_server,  \* the behaviour of 169.254.169.254
    DEFAULTS,         \* the container _DEFAULTS: its instance attributes
    ctor,             \* the arguments _DEFAULTS was constructed with
    last,             \* the last call of the module's API and its outcome
    gets,             \* number of get_default_dataset_id calls so far
    sets,             \* number of set_default_dataset_id calls so far
    lazyRuns,         \* number of times the lazy property ran its deferred callable
    threads,          \* per thread: where it is in its call, locals and outcome
    explicit          \* the value and number of the completed successful sets

vars == <<environ, app_identity, application_id, metadata_server,
          DEFAULTS, ctor, last, gets, sets, lazyRuns, threads, explicit>>

\* The state of the threads, which the calls made one at a time leave alone.
conc == <<threads, explicit>>

world == <<environ, app_identity, application_id, metadata_server>>

-----------------------------------------------------------------------------
\* Mutant: a variable set to the empty string counts as not set.
GetenvEmptyIsUnset(name) == IF environ[name] = "" THEN None ELSE environ[name]

\* os.getenv(name): the value, None when the variable is not set.
Getenv(name) == environ[name]

\* Mutant: the test "app_identity is None" is missing, the call on None fails.
AppEngineIdUnguarded ==
    IF app_identity = None \/ application_id = Raises
    THEN [ret |-> None, raised |-> "Error",
          trace |-> <<"app_engine_id", "get_application_id">>]
    ELSE [ret |-> application_id, raised |-> None,
          trace |-> <<"app_engine_id", "get_application_id">>]

\* app_engine_id(), lines 36-46.  trace lists what was called.
AppEngineId ==
    IF app_identity = None
    THEN [ret |-> None, raised |-> None, trace |-> <<"app_engine_id">>]
    ELSE IF application_id = Raises
    THEN [ret |-> None, raised |-> "Error",
          trace |-> <<"app_engine_id", "get_application_id">>]
    ELSE [ret |-> application_id, raised |-> None,
          trace |-> <<"app_engine_id", "get_application_id">>]

\* Mutant: the test "response.status == 200" is missing.
ComputeEngineTryAnyStatus ==
    CASE metadata_server.kind \in {"unreachable", "timeout"} ->
            [ret |-> None, raised |-> None, connection |-> "open"]
      [] metadata_server.kind = "garbage" ->
            [ret |-> None, raised |-> "HTTPException", connection |-> "open"]
      [] metadata_server.kind = "response" ->
            [ret |-> metadata_server.body, raised |-> None, connection |-> "open"]

\* The try block of compute_engine_id, lines 71-77, on an open connection.
ComputeEngineTry ==
    CASE metadata_server.kind \in {"unreachable", "timeout"} ->
            \* except socket.error: pass; the function falls off its end
            [ret |-> None, raised |-> None, connection |-> "open"]
      [] metadata_server.kind = "garbage" ->
            [ret |-> None, raised |-> "HTTPException", connection |-> "open"]
      [] metadata_server.kind = "response" ->
            IF metadata_server.status = 200
            THEN [ret |-> metadata_server.body, raised |-> None, connection |-> "open"]
            ELSE [ret |-> None, raised |-> None, connection |-> "open"]

\* Mutant: connection.close() follows the try statement instead of being its
\* finally clause, an exception that is not caught skips it.
ComputeEngineCloseOnReturn(r) ==
    IF r.raised = None THEN [r EXCEPT !.connection = "closed"] ELSE r

\* finally: connection.close(), lines 78-79.
ComputeEngineFinally(r) == [r EXCEPT !.connection = "closed"]

\* compute_engine_id(), lines 49-79.
ComputeEngineId ==
    LET r == ComputeEngineFinally(ComputeEngineTry)
    IN  [ret |-> r.ret, raised |-> r.raised, connection |-> r.connection,
         trace |-> <<"compute_engine_id", "request">>]

\* The state of one _determine_default_dataset_id call as it starts.
Start(dataset_id) ==
    [dataset_id |-> dataset_id, raised |-> None, trace |-> <<>>, connection |-> "none"]

\* Mutant: the guard "if dataset_id is None" is missing.
FromEnvUnguarded(s, name) ==
    [s EXCEPT !.dataset_id = Getenv(name), !.trace = Append(@, name)]

\* Lines 99-103: one "if dataset_id is None: dataset_id = os.getenv(name)".
FromEnv(s, name) ==
    IF s.dataset_id = None
    THEN [s EXCEPT !.dataset_id = Getenv(name), !.trace = Append(@, name)]
    ELSE s

\* Lines 105-106.
FromAppEngine(s) ==
    IF s.dataset_id = None
    THEN LET r == AppEngineId
         IN  [s EXCEPT !.dataset_id = r.ret, !.raised = r.raised,
                       !.trace = @ \o r.trace]
    ELSE s

\* Mutant: compute_engine_id is called before the test, its result is used
\* only when nothing else was found.
FromComputeEngineEager(s) ==
    IF s.raised = None
    THEN LET r == ComputeEngineId
         IN  IF s.dataset_id = None
             THEN [s EXCEPT !.dataset_id = r.ret, !.raised = r.raised,
                            !.trace = @ \o r.trace, !.connection = r.connection]
             ELSE [s EXCEPT !.raised = r.raised,
                            !.trace = @ \o r.trace, !.connection = r.connection]
    ELSE s

\* Lines 108-109; not reached when app_engine_id raised.
FromComputeEngine(s) ==
    IF s.raised = None /\ s.dataset_id = None
    THEN LET r == ComputeEngineId
         IN  [s EXCEPT !.dataset_id = r.ret, !.raised = r.raised,
                       !.trace = @ \o r.trace, !.connection = r.connection]
    ELSE s

\* Mutant: the environment variables are read first and the explicit
\* dataset_id is used only when neither is set.
DetermineEnvBeforeExplicit(dataset_id) ==
    LET s == FromEnv(FromEnv(Start(None), _DATASET_ENV_VAR_NAME),
                     _GCD_DATASET_ENV_VAR_NAME)
    IN  FromComputeEngine(
            FromAppEngine(
                IF s.dataset_id = None THEN [s EXCEPT !.dataset_id = dataset_id]
                ELSE s))

\* Mutant: DATASTORE_DATASET is read before GCLOUD_DATASET_ID.
DetermineGcdFirst(dataset_id) ==
    FromComputeEngine(
        FromAppEngine(
            FromEnv(FromEnv(Start(dataset_id), _GCD_DATASET_ENV_VAR_NAME),
                    _DATASET_ENV_VAR_NAME)))

\* _determine_default_dataset_id(dataset_id), lines 82-111.
DetermineDefaultDatasetId(dataset_id) ==
    FromComputeEngine(
        FromAppEngine(
            FromEnv(FromEnv(Start(dataset_id), _DATASET_ENV_VAR_NAME),
                    _GCD_DATASET_ENV_VAR_NAME)))

-----------------------------------------------------------------------------
\* Mutant: dataset_id is assigned whatever implicit says.
DefaultsContainerEager(connection, dataset_id, implicit) ==
    [connection |-> connection, resolved |-> TRUE, dataset_id |-> dataset_id]

\* Mutant: "or not implicit" is missing, None is never assigned.
DefaultsContainerNoneUnassigned(connection, dataset_id, implicit) ==
    LET self == [connection |-> connection, resolved |-> FALSE, dataset_id |-> None]
    IN  IF dataset_id # None
        THEN [self EXCEPT !.resolved = TRUE, !.dataset_id = dataset_id]
        ELSE self

\* _DefaultsContainer.__init__, lines 214-217.  resolved says that the
\* instance __dict__ holds dataset_id, which then hides the lazy property.
DefaultsContainer(connection, dataset_id, implicit) ==
    LET self == [connection |-> connection, resolved |-> FALSE, dataset_id |-> None]
    IN  IF dataset_id # None \/ ~implicit
        THEN [self EXCEPT !.resolved = TRUE, !.dataset_id = dataset_id]
        ELSE self

\* _LazyProperty.__get__ with the deferred callable of lines 208-212, on an
\* instance of _DefaultsContainer whose __dict__ has no dataset_id.
LazyPropertyGet(obj) ==
    LET r == DetermineDefaultDatasetId(None)
    IN  IF r.raised # None
        THEN [obj |-> obj, ret |-> None, raised |-> r.raised, trace |-> r.trace,
              connection |-> r.connection, ran |-> 1]
        ELSE LET set == [obj EXCEPT !.resolved = TRUE, !.dataset_id = r.dataset_id]
             IN  [obj |-> set, ret |-> set.dataset_id, raised |-> None,
                  trace |-> r.trace, connection |-> r.connection, ran |-> 1]

\* Mutant: the lazy property hides the instance attribute (a data
\* descriptor), every read runs the deferred callable again.
ReadDatasetIdNoCache(obj) == LazyPropertyGet(obj)

\* The attribute read obj.dataset_id: the instance attribute when there is
\* one, the lazy property of the class otherwise.
ReadDatasetId(obj) ==
    IF obj.resolved
    THEN [obj |-> obj, ret |-> obj.dataset_id, raised |-> None, trace |-> <<>>,
          connection |-> "none", ran |-> 0]
    ELSE LazyPropertyGet(obj)

\* Mutant: the else branch is missing, a setter that finds nothing returns.
SetDatasetIdSilent(obj, dataset_id) ==
    LET r == DetermineDefaultDatasetId(dataset_id)
    IN  IF r.raised # None
        THEN [obj |-> obj, raised |-> r.raised, message |-> "",
              trace |-> r.trace, connection |-> r.connection]
        ELSE IF r.dataset_id # None
        THEN [obj |-> [obj EXCEPT !.resolved = TRUE, !.dataset_id = r.dataset_id],
              raised |-> None, message |-> "",
              trace |-> r.trace, connection |-> r.connection]
        ELSE [obj |-> obj, raised |-> None, message |-> "",
              trace |-> r.trace, connection |-> r.connection]

\* Mutant: the result is assigned before it is tested, so None is stored
\* before the setter raises.
SetDatasetIdStoresNone(obj, dataset_id) ==
    LET r == DetermineDefaultDatasetId(dataset_id)
        set == [obj EXCEPT !.resolved = TRUE, !.dataset_id = r.dataset_id]
    IN  IF r.raised # None
        THEN [obj |-> obj, raised |-> r.raised, message |-> "",
              trace |-> r.trace, connection |-> r.connection]
        ELSE IF r.dataset_id # None
        THEN [obj |-> set, raised |-> None, message |-> "",
              trace |-> r.trace, connection |-> r.connection]
        ELSE [obj |-> set, raised |-> "EnvironmentError",
              message |-> "No dataset ID could be inferred.",
              trace |-> r.trace, connection |-> r.connection]

\* The body of set_default_dataset_id(dataset_id), lines 130-134.
SetDatasetId(obj, dataset_id) ==
    LET r == DetermineDefaultDatasetId(dataset_id)
    IN  IF r.raised # None
        THEN [obj |-> obj, raised |-> r.raised, message |-> "",
              trace |-> r.trace, connection |-> r.connection]
        ELSE IF r.dataset_id # None
        THEN [obj |-> [obj EXCEPT !.resolved = TRUE, !.dataset_id = r.dataset_id],
              raised |-> None, message |-> "",
              trace |-> r.trace, connection |-> r.connection]
        ELSE [obj |-> obj, raised |-> "EnvironmentError",
              message |-> "No dataset ID could be inferred.",
              trace |-> r.trace, connection |-> r.connection]

Call(op, arg, ret, raised, message, trace, connection) ==
    [op |-> op, arg |-> arg, ret |-> ret, raised |-> raised, message |-> message,
     trace |-> trace, connection |-> connection]

-----------------------------------------------------------------------------
\* get_default_dataset_id(), lines 137-143.
GetDefaultDatasetId ==
    /\ gets + sets < MaxCalls
    /\ LET r == ReadDatasetId(DEFAULTS)
       IN  /\ DEFAULTS' = r.obj
           /\ last' = Call("get", None, r.ret, r.raised, "", r.trace, r.connection)
           /\ lazyRuns' = lazyRuns + r.ran
    /\ gets' = gets + 1
    /\ UNCHANGED <<world, ctor, sets>>
    /\ UNCHANGED conc

\* set_default_dataset_id(dataset_id), lines 114-134.
SetDefaultDatasetId(dataset_id) ==
    /\ gets + sets < MaxCalls
    /\ LET r == SetDatasetId(DEFAULTS, dataset_id)
       IN  /\ DEFAULTS' = r.obj
           /\ last' = Call("set", dataset_id, None, r.raised, r.message, r.trace,
                           r.connection)
    /\ sets' = sets + 1
    /\ UNCHANGED <<world, ctor, gets, lazyRuns>>
    /\ UNCHANGED conc

\* Mutant: get_default_connection reads _DEFAULTS.dataset_id on its way.
GetDefaultConnectionResolves ==
    /\ LET r == ReadDatasetId(DEFAULTS)
       IN  /\ DEFAULTS' = r.obj
           /\ last' = Call("getconn", None, DEFAULTS.connection, None, "", r.trace,
                           r.connection)
           /\ lazyRuns' = lazyRuns + r.ran
    /\ UNCHANGED <<world, ctor, gets, sets>>
    /\ UNCHANGED conc

\* get_default_connection(), lines 146-152.
GetDefaultConnection ==
    /\ last' = Call("getconn", None, DEFAULTS.connection, None, "", <<>>, "none")
    /\ UNCHANGED <<world, DEFAULTS, ctor, gets, sets, lazyRuns>>
    /\ UNCHANGED conc

\* A collaborator stores a connection: _DEFAULTS.connection = connection.
StoreConnection(connection) ==
    /\ DEFAULTS' = [DEFAULTS EXCEPT !.connection = connection]
    /\ last' = Call("storeconn", connection, None, None, "", <<>>, "none")
    /\ UNCHANGED <<world, ctor, gets, sets, lazyRuns>>
    /\ UNCHANGED conc

\* The process environment changes between two calls.
SetEnv(name, value) ==
    /\ environ[name] # value
    /\ environ' = [environ EXCEPT ![name] = value]
    /\ UNCHANGED <<app_identity, application_id, metadata_server,
                   DEFAULTS, ctor, last, gets, sets, lazyRuns>>
    /\ UNCHANGED conc

\* The App Engine identity service answers differently.
ChangeApplicationId(outcome) ==
    /\ app_identity # None
    /\ application_id # outcome
    /\ application_id' = outcome
    /\ UNCHANGED <<environ, app_identity, metadata_server,
                   DEFAULTS, ctor, last, gets, sets, lazyRuns>>
    /\ UNCHANGED conc

\* The metadata server answers differently.
ChangeMetadataServer(server) ==
    /\ metadata_server # server
    /\ metadata_server' = server
    /\ UNCHANGED <<environ, app_identity, application_id,
                   DEFAULTS, ctor, last, gets, sets, lazyRuns>>
    /\ UNCHANGED conc

-----------------------------------------------------------------------------
NoCall == Call("none", None, None, None, "", <<>>, "none")

\* The world a process can start in.  The import of lines 26-29 fixes
\* app_identity for the life of the process.
InitWorld ==
    /\ environ \in [EnvVarNames -> {None, "", "g", "d"}]
    /\ \A n \in EnvVarNames : environ[n] \in EnvValues[n] \cup {None}
    /\ app_identity \in {None, "module"}
    /\ application_id \in ApplicationIdOutcomes
    /\ app_identity = None => application_id = None
    /\ metadata_server \in MetadataServers

\* A thread that has not called anything.
Idle ==
    [pc |-> "idle", op |-> "none", arg |-> None, val |-> None, ret |-> None,
     raised |-> None, done |-> FALSE, snap |-> None, epoch |-> 0, after |-> None]

InitCounters ==
    /\ last = NoCall
    /\ gets = 0
    /\ sets = 0
    /\ lazyRuns = 0
    /\ threads = [t \in Threads |-> Idle]
    /\ explicit = [value |-> None, epoch |-> 0]

\* Line 220: _DEFAULTS = _DefaultsContainer(implicit=True).
Init ==
    /\ InitWorld
    /\ InitCounters
    /\ ctor = [connection |-> None, dataset_id |-> None, implicit |-> TRUE]
    /\ DEFAULTS = DefaultsContainer(ctor.connection, ctor.dataset_id, ctor.implicit)

\* A container constructed with any arguments in the place of _DEFAULTS.
InitCtor ==
    /\ InitWorld
    /\ InitCounters
    /\ ctor \in [connection : {None},
                 dataset_id : {None, "x"},
                 implicit : BOOLEAN]
    /\ DEFAULTS = DefaultsContainer(ctor.connection, ctor.dataset_id, ctor.implicit)

Next ==
    \/ GetDefaultDatasetId
    \/ \E d \in ExplicitIds \cup {None} : SetDefaultDatasetId(d)
    \/ GetDefaultConnection
    \/ \E c \in Connections \cup {None} : StoreConnection(c)
    \/ \E n \in EnvVarNames : \E v \in EnvValues[n] \cup {None} : SetEnv(n, v)
    \/ \E o \in ApplicationIdOutcomes : ChangeApplicationId(o)
    \/ \E s \in MetadataServers : ChangeMetadataServer(s)

Spec == Init /\ [][Next]_vars

SpecCtor == InitCtor /\ [][Next]_vars

-----------------------------------------------------------------------------
\* Threads calling get_default_dataset_id and set_default_dataset_id on the
\* shared _DEFAULTS.  The module takes no lock; a thread can be suspended
\* between the attribute lookup, the deferred callable, setattr and getattr
\* of _LazyProperty.__get__, and between the resolution and the assignment of
\* the setter.  The world does not change while the threads run, so one
\* resolution is one step.

\* The call of thread t has ended: its frame is gone, its outcome stays.
\* after holds the value of the last set if a set had completed before the
\* call began and none completed while it ran.
Finished(th, ret, raised) ==
    [th EXCEPT !.pc = "idle", !.val = None, !.ret = ret, !.raised = raised,
               !.done = TRUE,
               !.after = IF th.epoch = explicit.epoch THEN th.snap ELSE None]

Begun(op, arg) ==
    [Idle EXCEPT !.op = op, !.arg = arg,
                 !.snap = explicit.value, !.epoch = explicit.epoch]

\* Mutant: a lock around the lazy property, a read waits while another
\* thread is inside __get__.
GetLookupLocked(t) ==
    /\ threads[t].pc = "idle"
    /\ gets + sets < MaxCalls
    /\ \A u \in Threads \ {t} : threads[u].pc \notin {"call", "setattr", "getattr"}
    /\ threads' = [threads EXCEPT ![t] =
          IF DEFAULTS.resolved
          THEN Finished(Begun("get", None), DEFAULTS.dataset_id, None)
          ELSE [Begun("get", None) EXCEPT !.pc = "call"]]
    /\ gets' = gets + 1
    /\ UNCHANGED <<world, DEFAULTS, ctor, last, sets, lazyRuns, explicit>>

\* Mutant: the first reader marks the attribute as being resolved by storing
\* None, and a reader that comes meanwhile takes that None.
GetLookupPlaceholder(t) ==
    /\ threads[t].pc = "idle"
    /\ gets + sets < MaxCalls
    /\ threads' = [threads EXCEPT ![t] =
          IF DEFAULTS.resolved
          THEN Finished(Begun("get", None), DEFAULTS.dataset_id, None)
          ELSE IF \E u \in Threads \ {t} : threads[u].pc = "call"
          THEN Finished(Begun("get", None), None, None)
          ELSE [Begun("get", None) EXCEPT !.pc = "call"]]
    /\ gets' = gets + 1
    /\ UNCHANGED <<world, DEFAULTS, ctor, last, sets, lazyRuns, explicit>>

\* get_default_dataset_id, line 143: the lookup of _DEFAULTS.dataset_id finds
\* the instance attribute and returns it, or finds none and enters
\* _LazyProperty.__get__ (line 173).
GetLookup(t) ==
    /\ threads[t].pc = "idle"
    /\ gets + sets < MaxCalls
    /\ threads' = [threads EXCEPT ![t] =
          IF DEFAULTS.resolved
          THEN Finished(Begun("get", None), DEFAULTS.dataset_id, None)
          ELSE [Begun("get", None) EXCEPT !.pc = "call"]]
    /\ gets' = gets + 1
    /\ UNCHANGED <<world, DEFAULTS, ctor, last, sets, lazyRuns, explicit>>

\* Line 177, self._deferred_callable(): the resolution, into a local.
GetCall(t) ==
    /\ threads[t].pc = "call"
    /\ LET r == DetermineDefaultDatasetId(None)
       IN  threads' = [threads EXCEPT ![t] =
              IF r.raised # None
              THEN Finished(@, None, r.raised)
              ELSE [@ EXCEPT !.pc = "setattr", !.val = r.dataset_id]]
    /\ lazyRuns' = lazyRuns + 1
    /\ UNCHANGED <<world, DEFAULTS, ctor, last, gets, sets, explicit>>

\* Line 177, setattr(obj, self._name, value).
GetSetattr(t) ==
    /\ threads[t].pc = "setattr"
    /\ DEFAULTS' = [DEFAULTS EXCEPT !.resolved = TRUE, !.dataset_id = threads[t].val]
    /\ threads' = [threads EXCEPT ![t].pc = "getattr"]
    /\ UNCHANGED <<world, ctor, last, gets, sets, lazyRuns, explicit>>

\* Line 178, return getattr(obj, self._name).
GetGetattr(t) ==
    /\ threads[t].pc = "getattr"
    /\ threads' = [threads EXCEPT ![t] = Finished(@, DEFAULTS.dataset_id, None)]
    /\ UNCHANGED <<world, DEFAULTS, ctor, last, gets, sets, lazyRuns, explicit>>

\* set_default_dataset_id, lines 130-134 but for the assignment: the
\* resolution, the test of its result and the raise.
SetCall(t, dataset_id) ==
    /\ threads[t].pc = "idle"
    /\ gets + sets < MaxCalls
    /\ LET r == DetermineDefaultDatasetId(dataset_id)
           th == Begun("set", dataset_id)
       IN  threads' = [threads EXCEPT ![t] =
              IF r.raised # None THEN Finished(th, None, r.raised)
              ELSE IF r.dataset_id # None
              THEN [th EXCEPT !.pc = "assign", !.val = r.dataset_id]
              ELSE Finished(th, None, "EnvironmentError")]
    /\ sets' = sets + 1
    /\ UNCHANGED <<world, DEFAULTS, ctor, last, gets, lazyRuns, explicit>>

\* Line 132, _DEFAULTS.dataset_id = dataset_id, and the return.
SetAssign(t) ==
    /\ threads[t].pc = "assign"
    /\ DEFAULTS' = [DEFAULTS EXCEPT !.resolved = TRUE, !.dataset_id = threads[t].val]
    /\ explicit' = [value |-> IF threads[t].arg # None THEN threads[t].val ELSE None,
                    epoch |-> explicit.epoch + 1]
    /\ threads' = [threads EXCEPT ![t] =
          [@ EXCEPT !.pc = "idle", !.val = None, !.done = TRUE, !.after = None]]
    /\ UNCHANGED <<world, ctor, last, gets, sets, lazyRuns>>

NextThreads ==
    \E t \in Threads :
        \/ GetLookup(t)
        \/ GetCall(t)
        \/ GetSetattr(t)
        \/ GetGetattr(t)
        \/ \E d \in ExplicitIds \cup {None} : SetCall(t, d)
        \/ SetAssign(t)

SpecThreads == Init /\ [][NextThreads]_vars

-----------------------------------------------------------------------------
\* What each source holds, read off the world without running the resolution.
GcloudValue == environ["GCLOUD_DATASET_ID"]
GcdValue == environ["DATASTORE_DATASET"]
PlatformRaises == app_identity # None /\ application_id = Raises
PlatformValue == IF app_identity = None \/ PlatformRaises THEN None ELSE application_id
MetadataRaises == metadata_server.kind = "garbage"
MetadataValue ==
    IF metadata_server.kind = "response" /\ metadata_server.status = 200
    THEN metadata_server.body
    ELSE None

\* The step is a call of get_default_dataset_id / set_default_dataset_id.
GetStep == gets' = gets + 1
SetStep == sets' = sets + 1

\* C1: for every present explicit override d, the resolution returns d, in
\* every state of the environment variables and of the two probes.
C1_ExplicitWins ==
    \A d \in ExplicitIds :
          /\ DetermineDefaultDatasetId(d).raised = None
          /\ DetermineDefaultDatasetId(d).dataset_id = d

\* C1 witness: an explicit set has stored its argument while both environment
\* variables, the platform probe and the metadata probe held other values.
C1_Witness ==
    /\ last.op = "set" /\ last.arg = "x" /\ last.raised = None
    /\ DEFAULTS.resolved /\ DEFAULTS.dataset_id = "x"
    /\ GcloudValue = "g" /\ GcdValue = "d"
    /\ PlatformValue = "p" /\ MetadataValue = "m"

\* The first present value in the order of precedence, None when there is none.
FirstPresent ==
    IF GcloudValue # None THEN GcloudValue
    ELSE IF GcdValue # None THEN GcdValue
    ELSE IF PlatformValue # None THEN PlatformValue
    ELSE MetadataValue

AllSourcesAbsent ==
    /\ GcloudValue = None /\ GcdValue = None
    /\ PlatformValue = None /\ MetadataValue = None

\* C2: with no explicit override and every source either present or absent
\* (no probe raises), the resolution returns the first present value in the
\* order GCLOUD_DATASET_ID, DATASTORE_DATASET, platform probe, metadata probe,
\* and returns None exactly when all four are absent.
C2_FirstPresentWins ==
    (~PlatformRaises /\ ~MetadataRaises) =>
        /\ DetermineDefaultDatasetId(None).raised = None
        /\ DetermineDefaultDatasetId(None).dataset_id = FirstPresent
        /\ DetermineDefaultDatasetId(None).dataset_id = None <=> AllSourcesAbsent

\* C2 witness: a lazy read ran the resolution with both environment variables
\* unset and both probes answering, and returned the platform probe's value.
C2_Witness ==
    /\ last.op = "get" /\ lazyRuns = 1 /\ last.ret = "p"
    /\ GcloudValue = None /\ GcdValue = None
    /\ PlatformValue = "p" /\ MetadataValue = "m"

\* The cases of a set_default_dataset_id(d) call, read off the world.
NothingPresent(d) == d = None /\ AllSourcesAbsent
PlatformFaults(d) ==
    d = None /\ GcloudValue = None /\ GcdValue = None /\ PlatformRaises
MetadataFaults(d) ==
    /\ d = None /\ GcloudValue = None /\ GcdValue = None
    /\ ~PlatformRaises /\ PlatformValue = None /\ MetadataRaises

C4_FailingSetKeepsState ==
    [][SetStep =>
         /\ last'.raised # None => DEFAULTS' = DEFAULTS
         /\ last'.raised = None =>
               /\ DEFAULTS'.resolved
               /\ DEFAULTS'.dataset_id = DetermineDefaultDatasetId(last'.arg).dataset_id
               /\ DEFAULTS'.dataset_id # None
               /\ DEFAULTS'.connection = DEFAULTS.connection]_vars

\* C4 witness: a setter call failed on a container that holds a cached value
\* and a connection, and both are still there.
C4_Witness ==
    /\ last.op = "set" /\ last.raised = "EnvironmentError"
    /\ DEFAULTS.resolved /\ DEFAULTS.dataset_id = "g"
    /\ DEFAULTS.connection = "conn"

\* C5 as stated: with no setter call, any number of get_default_dataset_id
\* calls on the container that started unresolved runs the resolution at most
\* once in total.
C5_Original ==
    (~ctor.implicit \/ ctor.dataset_id # None \/ sets # 0) \/ lazyRuns <= 1

\* C6: once the container holds a dataset ID (from a lazy read, a setter or
\* the constructor), every get_default_dataset_id call returns that value
\* without resolving and without raising, and the held value changes only in
\* a setter call that succeeds; changes of the environment variables and of
\* the probes' answers change nothing.
C6_CachedUntilSet ==
    [][DEFAULTS.resolved =>
         /\ GetStep =>
               /\ last'.ret = DEFAULTS.dataset_id
               /\ last'.raised = None
               /\ last'.trace = <<>>
               /\ lazyRuns' = lazyRuns
         /\ (~DEFAULTS'.resolved \/ DEFAULTS'.dataset_id # DEFAULTS.dataset_id) =>
               (SetStep /\ last'.raised = None)]_vars

\* C6 witness: the first read resolved to None, GCLOUD_DATASET_ID was set
\* afterwards, and the second read still returned None from the cache.
C6_Witness ==
    /\ gets = 2 /\ sets = 0 /\ lazyRuns = 1
    /\ last.op = "get" /\ last.ret = None /\ last.trace = <<>>
    /\ DEFAULTS.resolved /\ DEFAULTS.dataset_id = None
    /\ GcloudValue = "g"

\* C7: the construction of _DEFAULTS reads no environment variable and calls
\* no probe: until the first get or set call the dataset ID is unresolved and
\* nothing was resolved, and the connection is None until one is stored.
C7_NoEagerResolution ==
    /\ (gets = 0 /\ sets = 0) =>
          /\ ~DEFAULTS.resolved
          /\ lazyRuns = 0
          /\ last.trace = <<>>
    /\ last.op = "none" => DEFAULTS.connection = None

\* C7 witness: the environment names a dataset, get_default_connection was
\* called, and the dataset ID is still unresolved.
C7_Witness ==
    /\ gets = 0 /\ sets = 0 /\ last.op = "getconn"
    /\ GcloudValue = "g" /\ PlatformValue = "p" /\ MetadataValue = "m"
    /\ ~DEFAULTS.resolved

\* C8: a container constructed with implicit=False and dataset_id=None holds
\* None from construction: as long as no setter is called every read returns
\* None, runs no resolution, reads no variable and calls no probe.
C8_ExplicitNoneNeverProbes ==
    (~ctor.implicit /\ ctor.dataset_id = None /\ sets = 0) =>
        /\ DEFAULTS.resolved /\ DEFAULTS.dataset_id = None
        /\ lazyRuns = 0
        /\ last.op = "get" =>
              (last.ret = None /\ last.raised = None /\ last.trace = <<>>)

\* C8 witness: such a container was read twice while every source held a
\* value, and the second read returned None.
C8_Witness ==
    /\ ~ctor.implicit /\ ctor.dataset_id = None /\ sets = 0
    /\ gets = 2 /\ last.op = "get" /\ last.ret = None
    /\ GcloudValue = "g" /\ GcdValue = "d"
    /\ PlatformValue = "p" /\ MetadataValue = "m"

\* C9: set_default_dataset_id(d) with d present reads no environment variable
\* and calls no probe, does not fail and stores d, also in a container that
\* was unresolved; the get_default_dataset_id call that follows returns d
\* without resolving, whatever the environment became in between, and a get
\* on a container that holds a dataset ID returns it and changes nothing, so
\* that every later get returns d too.
C9_ExplicitSetBypassesProbing ==
    [][/\ (SetStep /\ last'.arg # None) =>
             /\ last'.trace = <<>>
             /\ last'.connection = "none"
             /\ last'.raised = None
             /\ DEFAULTS'.resolved
             /\ DEFAULTS'.dataset_id = last'.arg
       /\ (last.op = "set" /\ last.arg # None /\ GetStep) =>
             /\ last'.ret = last.arg
             /\ last'.trace = <<>>
             /\ last'.raised = None
             /\ lazyRuns' = lazyRuns
       /\ (DEFAULTS.resolved /\ GetStep) =>
             /\ last'.ret = DEFAULTS.dataset_id
             /\ DEFAULTS' = DEFAULTS]_vars

\* C9 witness: the explicit set hit an unresolved container (no lazy run and
\* no other setter call before it), and a later read returned its argument
\* although every source held another value.
C9_Witness ==
    /\ sets = 1 /\ gets = 1 /\ lazyRuns = 0
    /\ last.op = "get" /\ last.ret = "x" /\ last.trace = <<>>
    /\ GcloudValue = "g" /\ GcdValue = "d"
    /\ PlatformValue = "p" /\ MetadataValue = "m"

\* The step is a call of get_default_connection.
GetConnStep == last'.op = "getconn"

\* C10: get_default_connection returns the connection the container holds,
\* resolves nothing and changes nothing; the connection field is None at the
\* start and changes only when a connection is stored, never in a
\* get_default_dataset_id or set_default_dataset_id call.
C10_ConnectionPassThrough ==
    [][/\ GetConnStep =>
             /\ last'.ret = DEFAULTS.connection
             /\ last'.raised = None
             /\ last'.trace = <<>>
             /\ DEFAULTS' = DEFAULTS
             /\ lazyRuns' = lazyRuns
       /\ (GetStep \/ SetStep) => DEFAULTS'.connection = DEFAULTS.connection
       /\ DEFAULTS'.connection # DEFAULTS.connection =>
             (last'.op = "storeconn" /\ DEFAULTS'.connection = last'.arg)]_vars

\* C10 witness: a connection was stored, the dataset ID was then resolved by
\* a lazy read, and get_default_connection returned the stored connection.
C10_Witness ==
    /\ last.op = "getconn" /\ last.ret = "conn"
    /\ DEFAULTS.connection = "conn"
    /\ lazyRuns = 1 /\ DEFAULTS.resolved /\ DEFAULTS.dataset_id = "g"

-----------------------------------------------------------------------------
\* C11: compute_engine_id returns the response body when the status is 200
\* (an empty body included) and None when the status is not 200, when the
\* connection fails and when it times out; it raises in none of these cases.
C11_BodyOnlyOn200 ==
    LET r == ComputeEngineId
        ok == metadata_server.kind = "response" /\ metadata_server.status = 200
    IN  /\ ok => (r.raised = None /\ r.ret = metadata_server.body)
        /\ (metadata_server.kind = "response" /\ ~ok) =>
              (r.raised = None /\ r.ret = None)
        /\ metadata_server.kind \in {"unreachable", "timeout"} =>
              (r.raised = None /\ r.ret = None)

\* C11 witness: a lazy read reached the metadata probe, the server answered
\* 500 with a body, and the read returned None.
C11_Witness ==
    /\ last.op = "get" /\ last.connection = "closed" /\ last.ret = None
    /\ metadata_server = Response(500, "m")
    /\ DEFAULTS.resolved /\ DEFAULTS.dataset_id = None /\ lazyRuns = 1

Requests(trace) == {i \in DOMAIN trace : trace[i] = "request"}

\* C12: every compute_engine_id call leaves its connection closed, on status
\* 200, on another status, on a caught socket error or timeout and on an
\* exception that is not caught: no call of the API ends with a connection
\* of the probe open.
C12_ConnectionClosed ==
    /\ ComputeEngineId.connection = "closed"
    /\ last.connection # "open"
    /\ Requests(last.trace) # {} <=> last.connection = "closed"

\* C12 witness: a call in which the probe raised an exception it does not
\* catch ended with the connection closed.
C12_Witness ==
    /\ last.op \in {"get", "set"} /\ last.raised = "HTTPException"
    /\ Requests(last.trace) # {} /\ last.connection = "closed"

\* C13 as stated: get_default_dataset_id never raises, whatever the probes
\* do, and its outcome is cached.
C13_Original ==
    last.op = "get" =>
        /\ last.raised = None
        /\ DEFAULTS.resolved /\ DEFAULTS.dataset_id = last.ret

\* C14: app_engine_id returns None, without raising and without calling the
\* service, when app_identity is None; when the module was imported it calls
\* get_application_id once and returns what that call returns.
C14_PlatformProbe ==
    LET r == AppEngineId
        calls == {i \in DOMAIN r.trace : r.trace[i] = "get_application_id"}
    IN  /\ app_identity = None =>
              (r.ret = None /\ r.raised = None /\ calls = {})
        /\ (app_identity # None /\ application_id # Raises) =>
              (r.ret = application_id /\ r.raised = None /\ Cardinality(calls) = 1)

\* C14 witness: a lazy read went through app_engine_id without the module,
\* did not call the service, and went on to the metadata probe.
C14_Witness ==
    /\ app_identity = None /\ last.op = "get" /\ last.ret = "m"
    /\ last.trace = <<"GCLOUD_DATASET_ID", "DATASTORE_DATASET",
                      "app_engine_id", "compute_engine_id", "request">>

Count(trace, what) == Cardinality({i \in DOMAIN trace : trace[i] = what})

\* C18: one resolution consults a source only if every source before it was
\* absent: the platform probe runs only without override and environment
\* variables, the metadata probe (and its request) only when the platform
\* probe returned None too, and nothing is consulted twice.
C18_ShortCircuit ==
    \A d \in ExplicitIds \cup {None} :
        LET t == DetermineDefaultDatasetId(d).trace
            noEnv == d = None /\ GcloudValue = None /\ GcdValue = None
            B(x) == IF x THEN 1 ELSE 0
        IN  /\ Count(t, "GCLOUD_DATASET_ID") = B(d = None)
            /\ Count(t, "DATASTORE_DATASET") = B(d = None /\ GcloudValue = None)
            /\ Count(t, "app_engine_id") = B(noEnv)
            /\ Count(t, "get_application_id") = B(noEnv /\ app_identity # None)
            /\ Count(t, "compute_engine_id") =
                  B(noEnv /\ ~PlatformRaises /\ PlatformValue = None)
            /\ Count(t, "request") = Count(t, "compute_engine_id")

\* C18 witness: a lazy read found DATASTORE_DATASET and called neither probe
\* although both would have answered.
C18_Witness ==
    /\ last.op = "get" /\ last.ret = "d" /\ lazyRuns = 1
    /\ last.trace = <<"GCLOUD_DATASET_ID", "DATASTORE_DATASET">>
    /\ PlatformValue = "p" /\ MetadataValue = "m"

\* The value of the first source that is not None, the override first.
Winner(d) == IF d # None THEN d ELSE FirstPresent

\* A probe that the resolution reaches raises.
ResolveRaises(d) == PlatformFaults(d) \/ MetadataFaults(d)

\* C19 as stated: the dataset ID held by the container, and the one a get
\* returns, is never the empty string.
C19_Original ==
    /\ (DEFAULTS.resolved /\ DEFAULTS.dataset_id # None) => DEFAULTS.dataset_id # ""
    /\ (last.op = "get" /\ last.ret # None) => last.ret # ""

\* C19 amended: the resolution returns the value of the first source that is
\* not None as it is; the empty string is a present value, so the dataset ID
\* returned and stored is empty exactly when that first source is empty
\* (checked at every step for the resolution in the world of that step, and
\* for what the get or set call of the step returned and stored).
C19_EmptyIsPresent ==
    [][/\ \A d \in ExplicitIds \cup {None} :
             ~ResolveRaises(d) =>
                /\ DetermineDefaultDatasetId(d).dataset_id = Winner(d)
                /\ DetermineDefaultDatasetId(d).dataset_id = "" <=> Winner(d) = ""
       /\ (SetStep /\ last'.raised = None) =>
             (DEFAULTS'.dataset_id = "" <=> Winner(last'.arg) = "")
       /\ (GetStep /\ last'.raised = None) =>
             /\ last'.ret = DEFAULTS'.dataset_id
             /\ last'.ret = "" <=>
                   IF DEFAULTS.resolved THEN DEFAULTS.dataset_id = ""
                   ELSE Winner(None) = ""]_vars

\* C19 witness: GCLOUD_DATASET_ID is the empty string while DATASTORE_DATASET
\* and both probes hold tokens, and a lazy read returned and cached "".
C19_Witness ==
    /\ last.op = "get" /\ last.ret = "" /\ lazyRuns = 1
    /\ DEFAULTS.resolved /\ DEFAULTS.dataset_id = ""
    /\ GcloudValue = "" /\ GcdValue = "d"
    /\ PlatformValue = "p" /\ MetadataValue = "m"

-----------------------------------------------------------------------------
\* Thread t has ended a get_default_dataset_id call.
GotResult(t) == threads[t].done /\ threads[t].op = "get"

\* C15 as stated: a get_default_dataset_id call that begins after a
\* set_default_dataset_id(d) with d present has completed, and during which
\* no other set completes, returns d, in every interleaving.
C15_Original ==
    \A t \in Threads :
        (GotResult(t) /\ threads[t].after # None) =>
            (threads[t].raised = None /\ threads[t].ret = threads[t].after)

\* C16: nothing excludes a second thread from the lazy resolution: while a
\* thread is inside __get__ and has not stored its result, the read of any
\* idle thread finds the attribute missing and enters __get__ as well.
C16_NoMutualExclusion ==
    \A t \in Threads : \A u \in Threads \ {t} :
        (/\ threads[u].pc \in {"call", "setattr"}
         /\ ~DEFAULTS.resolved
         /\ threads[t].pc = "idle"
         /\ gets + sets < MaxCalls) =>
            ENABLED (GetLookup(t) /\ threads'[t].pc = "call")

\* C16 witness: with no setter call, both threads found the attribute
\* missing and both ran the whole sequence down to the metadata request,
\* before either stored its result.
C16_Witness ==
    /\ sets = 0 /\ lazyRuns = 2 /\ ~DEFAULTS.resolved
    /\ \A t \in Threads : threads[t].pc = "setattr" /\ threads[t].val = "m"
    /\ GcloudValue = None /\ GcdValue = None /\ PlatformValue = None
    /\ ~PlatformRaises

\* C17: with the world fixed and no setter call, every interleaving of
\* get_default_dataset_id calls on the unresolved container ends as the
\* resolution alone would: every call that ended has the outcome of
\* _determine_default_dataset_id() (the same value, or the same exception
\* where a probe raises), the container never holds another value, and when
\* all calls have ended it holds that value.
C17_RedundantResolutionHarmless ==
    sets = 0 =>
        LET r == DetermineDefaultDatasetId(None)
        IN  /\ \A t \in Threads :
                  GotResult(t) =>
                      /\ threads[t].raised = r.raised
                      /\ r.raised = None => threads[t].ret = r.dataset_id
            /\ DEFAULTS.resolved =>
                  (r.raised = None /\ DEFAULTS.dataset_id = r.dataset_id)
            /\ (gets > 0 /\ r.raised = None
                /\ \A t \in Threads : threads[t].pc = "idle") =>
                  DEFAULTS.resolved

\* C17 witness: both threads resolved (two runs), both calls have ended with
\* the platform probe's value, and the container holds it.
C17_Witness ==
    /\ sets = 0 /\ lazyRuns = 2
    /\ \A t \in Threads : GotResult(t) /\ threads[t].ret = "p"
    /\ DEFAULTS.resolved /\ DEFAULTS.dataset_id = "p"

====
